---------------------------- MODULE Spec2Model ----------------------------
(***************************************************************************)
(* A model of the password manager: the FernetHasher class                 *)
(* (views/password.py: random strings, key creation and archival,          *)
(* encrypt/decrypt), the interactive UI (templates/main.py) and the record *)
(* models (models/*.py).                                                   *)
(*                                                                         *)
(* Python values are records with a type tag t ("str", "bytes", "int",     *)
(* "none").  A literal str/bytes carries its code points / bytes in the    *)
(* field lit.  SHA-256, base64 and the Fernet primitives are symbolic: a   *)
(* digest is [hash |-> m] (32 bytes, collision free), the base64 text of a *)
(* payload p is [b64 |-> p], a Fernet token text is [tok |-> ..]; those    *)
(* texts are ASCII, so encoding/decoding them between str and bytes only   *)
(* changes the tag.                                                        *)
(***************************************************************************)
EXTENDS Integers, Sequences, FiniteSets, TLC

VARIABLES
    keyDir,     \* TRUE iff the directory KEY_DIR exists
    files,      \* the files of KEY_DIR: file name -> content
    box,        \* the FernetHasher instance under test (its Fernet key), or NoBox
    issued,     \* history: [tok, key, plain] of the token of an earlier encrypt
    clock,      \* int(time.time())
    last,       \* the outcome of the last call of the FernetHasher API
    store,      \* the Password table: a sequence of rows [id, domain, password]
    ui,         \* the UI session: [pc, fernet, secret]
    created,    \* history: master password -> the key derived when it was created
    shown       \* the outcome (what is printed) of the last UI operation

vars == <<keyDir, files, box, issued, clock, last, store, ui, created, shown>>
libVars == <<box, issued, last>>
uiVars == <<store, ui, created, shown>>

\* ------------------------------------------------------------------ bounds
MaxLen == 3          \* longest random string asked of get_random_string directly
MaxSeed == 1         \* the random source yields the draws of seeds 0..MaxSeed
MaxClock == 1        \* the clock runs from 0 to MaxClock
MaxRecords == 2      \* rows in the Password table
MaxId == 3           \* the largest id given to a row

\* ------------------------------------------------------- program constants
DEFAULT_KEY_LENGTH == 32
SUFFIX_LENGTH == 5
FERNET_KEY_BYTES == 32
FERNET_VERSION == 128

\* string.ascii_letters + string.digits, as code points: a-z, A-Z, 0-9
RANDOM_STRING_CHARS ==
    [i \in 1..62 |-> IF i <= 26 THEN 96 + i
                     ELSE IF i <= 52 THEN 64 + (i - 26)
                     ELSE 47 + (i - 52)]
KEY_FILE_PREFIX == <<107, 101, 121, 95>>        \* "key_"
KEY_FILE_EXTENSION == <<46, 107, 101, 121>>     \* ".key"
KEY_DIR == "keys"

\* ----------------------------------------------------------- Python values
None == [t |-> "none"]
PyInt(n) == [t |-> "int", n |-> n]
PyStr(s) == [t |-> "str", lit |-> s]
PyBytes(b) == [t |-> "bytes", lit |-> b]
IsStr(v) == v.t = "str"
IsBytes(v) == v.t = "bytes"
IsLit(v) == "lit" \in DOMAIN v

\* UTF-8 of one code point (code points below 65536)
EncodeCp(c) ==
    IF c < 128 THEN <<c>>
    ELSE IF c < 2048 THEN <<192 + (c \div 64), 128 + (c % 64)>>
    ELSE <<224 + (c \div 4096), 128 + ((c \div 64) % 64), 128 + (c % 64)>>

RECURSIVE EncodeCps(_)
EncodeCps(s) == IF s = <<>> THEN <<>> ELSE EncodeCp(Head(s)) \o EncodeCps(Tail(s))

IsCont(b) == b >= 128 /\ b < 192

\* the number of bytes of the UTF-8 sequence that starts b, 0 if it cannot start
LeadLen(b) ==
    IF b < 128 THEN 1
    ELSE IF b >= 194 /\ b < 224 THEN 2
    ELSE IF b >= 224 /\ b < 240 THEN 3
    ELSE 0

RECURSIVE Utf8Valid(_)
Utf8Valid(b) ==
    IF b = <<>> THEN TRUE
    ELSE LET n == LeadLen(b[1])
         IN /\ n > 0
            /\ Len(b) >= n
            /\ \A i \in 2..n : IsCont(b[i])
            /\ (n = 3 /\ b[1] = 224 => b[2] >= 160)
            /\ Utf8Valid(SubSeq(b, n + 1, Len(b)))

RECURSIVE DecodeCps(_)
DecodeCps(b) ==
    IF b = <<>> THEN <<>>
    ELSE LET n == LeadLen(b[1])
             cp == IF n = 1 THEN b[1]
                   ELSE IF n = 2 THEN (b[1] - 192) * 64 + (b[2] - 128)
                   ELSE (b[1] - 224) * 4096 + (b[2] - 128) * 64 + (b[3] - 128)
         IN <<cp>> \o DecodeCps(SubSeq(b, n + 1, Len(b)))

\* str.encode("utf-8")
Utf8Encode(v) ==
    IF IsLit(v) THEN PyBytes(EncodeCps(v.lit)) ELSE [v EXCEPT !.t = "bytes"]

\* bytes.decode() succeeds
CanDecode(v) == IsLit(v) => Utf8Valid(v.lit)

\* bytes.decode()
Utf8Decode(v) ==
    IF IsLit(v) THEN PyStr(DecodeCps(v.lit)) ELSE [v EXCEPT !.t = "str"]

\* str.strip(): the model's only whitespace is the space, 32
RECURSIVE LStrip(_)
LStrip(s) == IF s # <<>> /\ Head(s) = 32 THEN LStrip(Tail(s)) ELSE s

RECURSIVE RStrip(_)
RStrip(s) ==
    IF s # <<>> /\ s[Len(s)] = 32 THEN RStrip(SubSeq(s, 1, Len(s) - 1)) ELSE s

Strip(s) == RStrip(LStrip(s))

\* str.lower() on ASCII
Lower(s) == [i \in DOMAIN s |-> IF s[i] >= 65 /\ s[i] <= 90 THEN s[i] + 32 ELSE s[i]]

\* ------------------------------------------------------ the random source
\* secrets.choice draws an index of the sequence for each character.  The
\* model's random source yields, for a string of n characters, one of the
\* index sequences Draw(seed, n), seed in 0..MaxSeed.
Draw(seed, n) == [i \in 1..n |-> ((seed * 29 + (i - 1) * (2 * seed + 1)) % 62) + 1]
RandomDraws(n) == {Draw(seed, n) : seed \in 0..MaxSeed}

\* secrets.choice(cls.RANDOM_STRING_CHARS) with the drawn index r
secrets_choice(r) == RANDOM_STRING_CHARS[r]

\* _get_random_string: the error raised, "" when none
get_random_string_err(length) == IF length < 1 THEN "InvalidInput" ELSE ""

get_random_string_short(length, draw) ==
    [i \in 1..(length - 1) |-> secrets_choice(draw[i])]

\* _get_random_string: "".join(secrets.choice(..) for _ in range(length))
get_random_string(length, draw) ==
    [i \in 1..length |-> secrets_choice(draw[i])]

\* ------------------------------------------------------------------- keys
\* hashlib.sha256(m).digest(): 32 bytes, symbolic
Sha256(m) == [hash |-> m]

\* base64.b64encode(payload)
B64Encode(payload) == [t |-> "bytes", b64 |-> payload]

\* the number of bytes of a payload
PayloadLen(p) == IF "hash" \in DOMAIN p THEN 32 ELSE p.rawlen

\* create_key, lines 98-99: the key made from the string value
KeyFromSalted(value) == B64Encode([hash |-> EncodeCps(value), salt |-> clock])

KeyFromString(value) == B64Encode(Sha256(EncodeCps(value)))

\* FernetHasher.make_key(secret) (KeyDeriver.derive): the error raised
make_key_err(secret) == IF secret = <<>> THEN "InvalidInput" ELSE ""

\* FernetHasher.make_key(secret): base64 of the SHA-256 of the secret's UTF-8
make_key(secret) == KeyFromString(secret)

\* the characters of the base64 alphabets (standard and url-safe)
IsB64Char(c) ==
    \/ c >= 97 /\ c <= 122
    \/ c >= 65 /\ c <= 90
    \/ c >= 48 /\ c <= 57
    \/ c \in {43, 47, 45, 95}

\* base64.urlsafe_b64decode of a literal without '=': other characters are
\* discarded; the data characters must fill whole groups of four
B64LitOk(s) == Cardinality({i \in DOMAIN s : IsB64Char(s[i])}) % 4 = 0
B64LitLen(s) == (Cardinality({i \in DOMAIN s : IsB64Char(s[i])}) \div 4) * 3

\* Fernet(key): the key is accepted iff it base64-decodes to 32 bytes
FernetKeyOkAnyLength(key) ==
    /\ key.t = "bytes"
    /\ IF IsLit(key) THEN B64LitOk(key.lit)
       ELSE "b64" \in DOMAIN key

FernetKeyOk(key) ==
    /\ key.t = "bytes"
    /\ IF IsLit(key) THEN B64LitOk(key.lit) /\ B64LitLen(key.lit) = FERNET_KEY_BYTES
       ELSE "b64" \in DOMAIN key /\ PayloadLen(key.b64) = FERNET_KEY_BYTES

\* the Fernet instance of an accepted key: its signing and encryption key
FernetOf(key) == [key |-> key.b64]

NoBox == [none |-> TRUE]

\* ----------------------------------------------------------------- Fernet
\* Fernet.encrypt: version byte, timestamp, IV, AES-CBC ciphertext of the
\* padded data (symbolic: key, IV, plaintext, cx = 0 while intact) ...
FernetBody(f, data, ts, iv) ==
    [ver |-> FERNET_VERSION, ts |-> ts, iv |-> iv,
     ct |-> [ek |-> f.key, civ |-> iv, pt |-> data, cx |-> 0]]

\* ... and the HMAC-SHA256 of all of that under the signing key
FernetMac(f, body) == [sk |-> f.key, over |-> body, mx |-> 0]

\* the bytes of a token: 1 + 8 + 16 + padded ciphertext + 32
TokenBytes(data) == 57 + 16 * ((Len(data.lit) \div 16) + 1)

\* urlsafe_b64encode of the token bytes: when their number is no multiple of
\* 3 the last data character carries unused low bits (slack, 0 as encoded)
\* and '=' padding follows (padx = 0 while intact)
fernet_encrypt(f, data, ts, iv) ==
    [t |-> "bytes",
     tok |-> [body |-> FernetBody(f, data, ts, iv),
              mac |-> FernetMac(f, FernetBody(f, data, ts, iv))],
     slack |-> 0, padx |-> 0, padded |-> (TokenBytes(data) % 3 # 0)]

\* Fernet.decrypt(token) raises InvalidToken: the text does not base64-decode
\* (a literal that is no token, damaged padding), the version byte is wrong,
\* the HMAC does not verify under this key, or the ciphertext does not
\* decrypt and unpad.  The slack bits are dropped by the decoder.
fernet_decrypt_noverify(f, v) ==
    \/ "tok" \notin DOMAIN v
    \/ v.padx # 0
    \/ v.tok.body.ver # FERNET_VERSION

fernet_decrypt_invalid(f, v) ==
    \/ "tok" \notin DOMAIN v
    \/ v.padx # 0
    \/ v.tok.body.ver # FERNET_VERSION
    \/ v.tok.mac # FernetMac(f, v.tok.body)
    \/ v.tok.body.ct.ek # f.key
    \/ v.tok.body.ct.civ # v.tok.body.iv
    \/ v.tok.body.ct.cx # 0

\* Fernet.decrypt(token): the plaintext bytes
fernet_decrypt(f, v) == v.tok.body.ct.pt

\* FernetHasher.encrypt: the error raised, "" when none
encrypt_err(value) == IF IsStr(value) \/ IsBytes(value) THEN "" ELSE "InvalidInput"

\* FernetHasher.encrypt: the token
encrypt(f, value, ts, iv) ==
    fernet_encrypt(f, IF IsStr(value) THEN Utf8Encode(value) ELSE value, ts, iv)

\* FernetHasher.decrypt: the error raised, "" when none
decrypt_err(f, value) ==
    IF ~(IsStr(value) \/ IsBytes(value)) THEN "InvalidInput"
    ELSE LET v == IF IsStr(value) THEN Utf8Encode(value) ELSE value
         IN IF fernet_decrypt_invalid(f, v) THEN "InvalidToken"
            ELSE IF ~CanDecode(fernet_decrypt(f, v)) THEN "DecryptionFailed"
            ELSE ""

decrypt_latin1(f, value) ==
    PyStr(fernet_decrypt(f, IF IsStr(value) THEN Utf8Encode(value) ELSE value).lit)

\* FernetHasher.decrypt: self.fernet.decrypt(value).decode()
decrypt(f, value) ==
    Utf8Decode(fernet_decrypt(f, IF IsStr(value) THEN Utf8Encode(value) ELSE value))

\* ---------------------------------------------------------- key archival
\* a path under KEY_DIR
PathOf(name) == [t |-> "str", dir |-> KEY_DIR, name |-> name]

\* archive_key: the file name
archive_name(draw) ==
    KEY_FILE_PREFIX \o get_random_string(SUFFIX_LENGTH, draw) \o KEY_FILE_EXTENSION

\* archive_key: the error raised, "" when none.  mk: mkdir can create the
\* directory; wr: the file can be opened and written
archive_err(key, mk, wr) ==
    IF ~IsBytes(key) THEN "InvalidInput"
    ELSE IF ~keyDir /\ ~mk THEN "IOError"
    ELSE IF ~wr THEN "IOError"
    ELSE ""

archive_dir_eager(key, mk) == keyDir \/ mk

\* archive_key: KEY_DIR exists afterwards
archive_dir(key, mk) == keyDir \/ (IsBytes(key) /\ mk)

WriteBytes(name, content) ==
    [n \in DOMAIN files \cup {name} |-> IF n = name THEN content ELSE files[n]]

archive_files_empty(key, draw, mk, wr) ==
    IF archive_err(key, mk, wr) = "" THEN WriteBytes(archive_name(draw), PyBytes(<<>>))
    ELSE files

\* archive_key: the files of KEY_DIR afterwards (write_bytes creates or overwrites)
archive_files(key, draw, mk, wr) ==
    IF archive_err(key, mk, wr) = "" THEN WriteBytes(archive_name(draw), key)
    ELSE files

\* ------------------------------------------------------------- the inputs
SecretInputs == {<<>>, <<109>>, <<110>>}                  \* "", "m", "n"
KeyA == make_key(<<109>>)
KeyB == make_key(<<110>>)
KeyInputs ==
    {KeyA, KeyB, [KeyA EXCEPT !.t = "str"],
     PyBytes(<<97>>), PyBytes(<<97, 97, 97, 97>>),
     B64Encode([rawlen |-> 16]), [B64Encode([rawlen |-> 33]) EXCEPT !.t = "str"],
     None}
PlainInputs ==
    {PyStr(<<97>>), PyStr(<<233>>), PyBytes(<<97>>), PyBytes(<<195, 169>>),
     PyBytes(<<233>>), PyBytes([i \in 1..32 |-> 97]), PyInt(7), None}
FewKeyInputs == {KeyA, PyBytes(<<97>>)}
FewPlainInputs == {PyStr(<<233>>), PyInt(7)}
ArchiveInputs == {KeyA, [KeyB EXCEPT !.t = "str"], None}
\* mkdir has nothing to create, and cannot fail, when the directory exists
MkOutcomes == IF keyDir THEN {TRUE} ELSE BOOLEAN
LengthInputs == (0 - 1)..MaxLen
IvInputs == {0}

\* a token text with one byte changed: in the version byte, the timestamp,
\* the IV, the ciphertext, the HMAC, the unused bits of the last data
\* character, or the padding
Tampered(v) ==
    {[v EXCEPT !.tok.body.ver = 129],
     [v EXCEPT !.tok.body.ts = @ + 1],
     [v EXCEPT !.tok.body.iv = @ + 1],
     [v EXCEPT !.tok.body.ct.cx = 1],
     [v EXCEPT !.tok.mac.mx = 1]}
    \cup (IF v.padded THEN {[v EXCEPT !.slack = 1], [v EXCEPT !.padx = 1]} ELSE {})

TokenInputs ==
    UNION {{r.tok, [r.tok EXCEPT !.t = "str"]} \cup Tampered(r.tok) : r \in issued}
    \cup {PyBytes(<<97>>), PyInt(7)}

\* what a UI operation read (domain, arg) and printed (msg, out)
Shown(op, msg, domain, arg, out) ==
    [op |-> op, msg |-> msg, domain |-> domain, arg |-> arg, out |-> out]

Result(op, arg, err, out, path) ==
    [op |-> op, arg |-> arg, err |-> err, out |-> out, path |-> path]

\* ------------------------------------------------- the FernetHasher calls
Init ==
    /\ keyDir = FALSE
    /\ files = << >>
    /\ box = NoBox
    /\ issued = {}
    /\ clock = 0
    /\ last = Result("none", None, "", None, None)
    /\ store = << >>
    /\ ui = [pc |-> "off", fernet |-> NoBox, secret |-> << >>]
    /\ created = << >>
    /\ shown = Shown("none", "", << >>, << >>, None)

\* FernetHasher.__init__: the error raised, "" when none.  mk: mkdir can
\* create the directory
init_err(key, mk) ==
    IF ~keyDir /\ ~mk THEN "IOError"
    ELSE IF ~FernetKeyOk(IF IsStr(key) THEN Utf8Encode(key) ELSE key) THEN "InvalidKey"
    ELSE ""

\* FernetHasher(key)
New(key, mk) ==
    /\ keyDir' = (keyDir \/ mk)
    /\ box' = IF init_err(key, mk) = ""
              THEN FernetOf(IF IsStr(key) THEN Utf8Encode(key) ELSE key)
              ELSE box
    /\ last' = Result("init", key, init_err(key, mk), None, None)
    /\ UNCHANGED <<files, issued, clock>>
    /\ UNCHANGED uiVars

\* box.encrypt(value) at time now with the IV iv; track: the history variable
\* issued follows this token from now on
Encrypt(value, now, iv, track) ==
    /\ box # NoBox
    /\ clock' = now
    /\ last' = Result("encrypt", value, encrypt_err(value),
                      IF encrypt_err(value) = "" THEN encrypt(box, value, now, iv)
                      ELSE None, None)
    /\ issued' = IF encrypt_err(value) = "" /\ track
                 THEN {[tok |-> encrypt(box, value, now, iv),
                        key |-> box.key, plain |-> value]}
                 ELSE issued
    /\ UNCHANGED <<keyDir, files, box>>
    /\ UNCHANGED uiVars

\* box.decrypt(value)
Decrypt(value) ==
    /\ box # NoBox
    /\ last' = Result("decrypt", value, decrypt_err(box, value),
                      IF decrypt_err(box, value) = "" THEN decrypt(box, value)
                      ELSE None, None)
    /\ UNCHANGED <<keyDir, files, box, issued, clock>>
    /\ UNCHANGED uiVars

\* FernetHasher._get_random_string(length)
GetRandomString(length, draw) ==
    /\ last' = Result("get_random_string", PyInt(length), get_random_string_err(length),
                      IF get_random_string_err(length) = ""
                      THEN PyStr(get_random_string(length, draw)) ELSE None, None)
    /\ UNCHANGED <<keyDir, files, box, issued, clock>>
    /\ UNCHANGED uiVars

\* FernetHasher.archive_key(key)
ArchiveKey(key, draw, mk, wr) ==
    /\ keyDir' = archive_dir(key, mk)
    /\ files' = archive_files(key, draw, mk, wr)
    /\ last' = Result("archive_key", key, archive_err(key, mk, wr), None,
                      IF archive_err(key, mk, wr) = "" THEN PathOf(archive_name(draw))
                      ELSE None)
    /\ UNCHANGED <<box, issued, clock>>
    /\ UNCHANGED uiVars

\* create_key: the key of the drawn value
create_key_key(vdraw) == KeyFromString(get_random_string(DEFAULT_KEY_LENGTH, vdraw))

\* create_key: the path returned
create_key_path(archive, vdraw, draw, mk, wr) ==
    IF archive /\ archive_err(create_key_key(vdraw), mk, wr) = ""
    THEN PathOf(archive_name(draw)) ELSE None

\* create_key: the error raised, "" when none
create_key_err(archive, vdraw, mk, wr) ==
    IF archive THEN archive_err(create_key_key(vdraw), mk, wr) ELSE ""

\* FernetHasher.create_key(archive)
CreateKey(archive, vdraw, draw, mk, wr) ==
    /\ keyDir' = IF archive THEN archive_dir(create_key_key(vdraw), mk) ELSE keyDir
    /\ files' = IF archive THEN archive_files(create_key_key(vdraw), draw, mk, wr)
                ELSE files
    /\ last' = Result("create_key", [t |-> "bool", b |-> archive],
                      create_key_err(archive, vdraw, mk, wr),
                      IF create_key_err(archive, vdraw, mk, wr) = ""
                      THEN create_key_key(vdraw) ELSE None,
                      create_key_path(archive, vdraw, draw, mk, wr))
    /\ UNCHANGED <<box, issued, clock>>
    /\ UNCHANGED uiVars

\* FernetHasher.make_key(secret)
MakeKey(secret) ==
    /\ last' = Result("make_key", PyStr(secret), make_key_err(secret),
                      IF make_key_err(secret) = "" THEN make_key(secret) ELSE None, None)
    /\ UNCHANGED <<keyDir, files, box, issued, clock>>
    /\ UNCHANGED uiVars

\* the calls of the key functions, and of a box whose tokens are not followed
Next ==
    \/ \E key \in FewKeyInputs, mk \in MkOutcomes : New(key, mk)
    \/ \E value \in FewPlainInputs : Encrypt(value, clock, 0, FALSE)
    \/ \E value \in TokenInputs : Decrypt(value)
    \/ \E length \in LengthInputs, draw \in RandomDraws(MaxLen) :
           GetRandomString(length, draw)
    \/ \E key \in ArchiveInputs, draw \in RandomDraws(SUFFIX_LENGTH),
          mk \in MkOutcomes, wr \in BOOLEAN : ArchiveKey(key, draw, mk, wr)
    \/ \E vdraw \in RandomDraws(DEFAULT_KEY_LENGTH) :
           CreateKey(FALSE, vdraw, vdraw, TRUE, TRUE)
    \/ \E vdraw \in RandomDraws(DEFAULT_KEY_LENGTH),
          draw \in RandomDraws(SUFFIX_LENGTH), mk \in MkOutcomes, wr \in BOOLEAN :
           CreateKey(TRUE, vdraw, draw, mk, wr)
    \/ \E secret \in SecretInputs : MakeKey(secret)

Spec == Init /\ [][Next]_vars

\* the calls of one box after another, the tokens of encrypt followed
NextCrypt ==
    \/ \E key \in KeyInputs, mk \in MkOutcomes : New(key, mk)
    \/ \E value \in PlainInputs, now \in clock..MaxClock, iv \in IvInputs,
          track \in BOOLEAN : Encrypt(value, now, iv, track)
    \/ \E value \in TokenInputs : Decrypt(value)

SpecCrypt == Init /\ [][NextCrypt]_vars

\* --------------------------------------------------- the Password table
\* PasswordService.get(domain=domain): the index of the row of that domain,
\* 0 when there is none (the column is compared as it is stored)
get_index(domain) ==
    IF \E i \in 1..Len(store) : store[i].domain = domain
    THEN CHOOSE i \in 1..Len(store) :
             /\ store[i].domain = domain
             /\ \A j \in 1..(i - 1) : store[j].domain # domain
    ELSE 0

\* the id given to a new row: one more than the largest
next_id ==
    IF Len(store) = 0 THEN 1
    ELSE 1 + CHOOSE m \in {store[i].id : i \in 1..Len(store)} :
                 \A i \in 1..Len(store) : store[i].id <= m

\* Password(domain=domain, password=password): the row, created_at now
Password(domain, password, now) ==
    [id |-> next_id, domain |-> domain, password |-> password, created_at |-> now]

\* PasswordService.create(password): the insert violates domain's unique index
create_err(domain) == \E i \in 1..Len(store) : store[i].domain = domain

\* PasswordService.create(password)
create(row) == Append(store, row)

\* PasswordService.delete(id)
delete(id) == SelectSeq(store, LAMBDA r : r.id # id)

\* ------------------------------------------------------------------ the UI
DomainInputs == {<<97>>, <<65>>, <<32, 97>>}                \* "a", "A", " a"
PasswordInputs == {<<112, 32>>, <<32>>}                      \* "p ", " "
CreateInputs == {<<49>>, <<50>>, <<>>, <<109>>, <<110>>}     \* "1", "2", "", "m", "n"
LoginInputs == {<<109>>, <<32, 109>>, <<110>>}               \* "m", " m", "n"
ConfirmInputs == {<<121>>, <<89>>, <<110>>, <<121, 32>>}     \* "y", "Y", "n", "y "

\* time passes between two operations of the menu
Later == IF clock < MaxClock THEN clock + 1 ELSE clock

\* create_master_password: the key returned for the stripped input mp
cmp_key(mp, vdraw) == IF mp = <<49>> THEN create_key_key(vdraw) ELSE make_key(mp)

\* create_master_password returns None
cmp_none(mp, vdraw, mk, wr) ==
    \/ mp = <<50>>
    \/ mp = <<>>
    \/ mp = <<49>> /\ archive_err(create_key_key(vdraw), mk, wr) # ""

\* start, no password stored: create_master_password, then FernetHasher and
\* the menu
StartCreate(input, vdraw, draw, mk, wr) ==
    /\ ui.pc = "off"
    /\ Len(store) = 0
    /\ LET mp == Strip(input)
           gen == mp = <<49>>
           none == cmp_none(mp, vdraw, mk, wr)
           key == cmp_key(mp, vdraw)
           dirAfter == IF gen THEN archive_dir(key, mk)
                       ELSE IF none THEN keyDir ELSE keyDir \/ mk
           err == IF none THEN "none"
                  ELSE IF ~dirAfter THEN "IOError"
                  ELSE IF ~FernetKeyOk(key) THEN "InvalidKey" ELSE ""
       IN /\ keyDir' = dirAfter
          /\ files' = IF gen THEN archive_files(key, draw, mk, wr) ELSE files
          /\ created' = IF ~none /\ ~gen /\ mp \notin DOMAIN created
                        THEN [x \in DOMAIN created \cup {mp} |->
                                 IF x = mp THEN key ELSE created[x]]
                        ELSE created
          /\ ui' = IF err = "" THEN [pc |-> "menu", fernet |-> FernetOf(key), secret |-> mp]
                   ELSE ui
          /\ shown' = Shown("start", IF err = "" THEN "menu" ELSE err, << >>, mp, None)
    /\ UNCHANGED <<store, clock>>
    /\ UNCHANGED libVars

\* start, passwords stored: get_master_password (asks until the input is not
\* empty), then FernetHasher and the menu
StartLogin(input, mk) ==
    /\ ui.pc = "off"
    /\ Len(store) > 0
    /\ Strip(input) # <<>>
    /\ LET mp == Strip(input)
           key == make_key(mp)
           err == init_err(key, mk)
       IN /\ keyDir' = (keyDir \/ mk)
          /\ ui' = IF err = "" THEN [pc |-> "menu", fernet |-> FernetOf(key), secret |-> mp]
                   ELSE ui
          /\ shown' = Shown("start", IF err = "" THEN "menu" ELSE err, << >>, mp, None)
    /\ UNCHANGED <<files, store, clock, created>>
    /\ UNCHANGED libVars

\* add_password: what is printed
add_msg(domain, pw, dbok) ==
    IF get_index(domain) # 0 THEN "exists"
    ELSE IF pw = <<>> THEN "empty"
    ELSE IF ~dbok \/ create_err(domain) THEN "error"
    ELSE "saved"

add_store_unchecked(domain, pw, f, now, dbok) ==
    IF get_index(domain) = 0
    THEN create(Password(domain,
                         Utf8Decode(encrypt(f, PyStr(pw), now, 0)), now))
    ELSE store

\* add_password: the table afterwards
add_store(domain, pw, f, now, dbok) ==
    IF add_msg(domain, pw, dbok) = "saved"
    THEN create(Password(domain,
                         Utf8Decode(encrypt(f, PyStr(pw), now, 0)), now))
    ELSE store

\* menu choice 1; dbok: the insert and commit succeed
AddPassword(dinput, pinput, dbok) ==
    /\ ui.pc = "menu"
    /\ Strip(dinput) # <<>>
    /\ add_msg(Strip(dinput), Strip(pinput), dbok) = "saved" =>
           Len(store) < MaxRecords /\ next_id <= MaxId
    /\ clock' = Later
    /\ store' = add_store(Strip(dinput), Strip(pinput), ui.fernet, Later, dbok)
    /\ shown' = Shown("add", add_msg(Strip(dinput), Strip(pinput), dbok),
                      Strip(dinput), Strip(pinput), None)
    /\ UNCHANGED <<keyDir, files, ui, created>>
    /\ UNCHANGED libVars

\* view_password: the table afterwards
view_store(domain, f) == store

\* menu choice 2
ViewPassword(dinput) ==
    /\ ui.pc = "menu"
    /\ Strip(dinput) # <<>>
    /\ LET domain == Strip(dinput)
           i == get_index(domain)
           err == IF i = 0 THEN "notfound" ELSE decrypt_err(ui.fernet, store[i].password)
       IN /\ shown' = Shown("view", IF err = "" THEN "password" ELSE err, domain, << >>,
                            IF err = "" THEN decrypt(ui.fernet, store[i].password)
                            ELSE None)
          /\ store' = view_store(domain, ui.fernet)
    /\ UNCHANGED <<keyDir, files, clock, ui, created>>
    /\ UNCHANGED libVars

\* menu choice 3
ViewAllDomains ==
    /\ ui.pc = "menu"
    /\ shown' = Shown("view_all", IF Len(store) = 0 THEN "none" ELSE "domains", << >>, << >>,
                      [t |-> "list", items |-> [i \in 1..Len(store) |-> store[i].domain]])
    /\ UNCHANGED <<keyDir, files, clock, store, ui, created>>
    /\ UNCHANGED libVars

\* remove_password: what is printed
remove_msg(domain, confirm, dbok) ==
    IF get_index(domain) = 0 THEN "notfound"
    ELSE IF Lower(confirm) # <<121>> THEN "cancelled"
    ELSE IF ~dbok THEN "error"
    ELSE "removed"

remove_store_unconfirmed(domain, confirm, dbok) ==
    IF get_index(domain) # 0 /\ dbok
    THEN delete(store[get_index(domain)].id)
    ELSE store

\* remove_password: the table afterwards
remove_store(domain, confirm, dbok) ==
    IF remove_msg(domain, confirm, dbok) = "removed"
    THEN delete(store[get_index(domain)].id)
    ELSE store

\* menu choice 4; dbok: the delete and commit succeed
RemovePassword(dinput, confirm, dbok) ==
    /\ ui.pc = "menu"
    /\ Strip(dinput) # <<>>
    /\ store' = remove_store(Strip(dinput), confirm, dbok)
    /\ shown' = Shown("remove", remove_msg(Strip(dinput), confirm, dbok),
                      Strip(dinput), confirm, None)
    /\ UNCHANGED <<keyDir, files, clock, ui, created>>
    /\ UNCHANGED libVars

\* menu choice 5, or KeyboardInterrupt
Exit ==
    /\ ui.pc = "menu"
    /\ ui' = [pc |-> "off", fernet |-> NoBox, secret |-> << >>]
    /\ shown' = Shown("exit", "", << >>, << >>, None)
    /\ UNCHANGED <<keyDir, files, clock, store, created>>
    /\ UNCHANGED libVars

NextUI ==
    \/ \E input \in CreateInputs, mk \in MkOutcomes, wr \in BOOLEAN :
           StartCreate(input, Draw(0, DEFAULT_KEY_LENGTH), Draw(0, SUFFIX_LENGTH), mk, wr)
    \/ \E input \in LoginInputs, mk \in MkOutcomes : StartLogin(input, mk)
    \/ \E dinput \in DomainInputs, pinput \in PasswordInputs, dbok \in BOOLEAN :
           AddPassword(dinput, pinput, dbok)
    \/ \E dinput \in DomainInputs : ViewPassword(dinput)
    \/ ViewAllDomains
    \/ \E dinput \in DomainInputs, confirm \in ConfirmInputs, dbok \in BOOLEAN :
           RemovePassword(dinput, confirm, dbok)
    \/ Exit
    \/ \E secret \in SecretInputs : MakeKey(secret)

SpecUI == Init /\ [][NextUI]_vars

\* ------------------------------------------------------------------ claims
\* the token of r, as bytes or as str
SameToken(v, r) == v = r.tok \/ v = [r.tok EXCEPT !.t = "str"]

\* C1, as stated: decrypt of the token that encrypt returned for the
\* plaintext P, on a box of the same key, returns exactly P (str or bytes).
C1_RoundTripExact ==
    last.op = "decrypt" =>
        \A r \in issued :
            SameToken(last.arg, r) /\ box.key = r.key =>
                last.err = "" /\ last.out = r.plain

\* C1, amended: decrypt of the token that encrypt returned for P, on a box of
\* the same key and whatever calls came in between, returns P when P is a
\* str; when P is bytes it returns the str whose UTF-8 encoding is P, and
\* fails with DecryptionFailed when P is not valid UTF-8.
C1_RoundTrip ==
    last.op = "decrypt" =>
        \A r \in issued :
            SameToken(last.arg, r) /\ box.key = r.key =>
                IF IsStr(r.plain) THEN last.err = "" /\ last.out = r.plain
                ELSE IF Utf8Valid(r.plain.lit)
                     THEN /\ last.err = ""
                          /\ IsStr(last.out)
                          /\ EncodeCps(last.out.lit) = r.plain.lit
                ELSE last.err = "DecryptionFailed"

\* a str with a non-ASCII character, encrypted after the clock had advanced,
\* came back from its token
C1_Witness ==
    /\ last.op = "decrypt"
    /\ last.err = ""
    /\ last.out = PyStr(<<233>>)
    /\ clock > 0
    /\ \E r \in issued : last.arg = r.tok /\ box.key = r.key /\ r.plain = last.out

SlackOnly(v, r) == v.tok = r.tok.tok /\ v.padx = r.tok.padx

C4_Decodes32(key) ==
    /\ key.t \in {"str", "bytes"}
    /\ IF IsLit(key) THEN B64LitOk(key.lit) /\ B64LitLen(key.lit) = 32
       ELSE PayloadLen(key.b64) = 32

\* C4, as stated: construction with a key that does not decode to 32 bytes
\* fails with InvalidKey, and only construction raises InvalidKey.
C4_InvalidKeyAlways ==
    /\ last.op = "init" /\ ~C4_Decodes32(last.arg) => last.err = "InvalidKey"
    /\ last.err = "InvalidKey" => last.op = "init"

\* C4, amended: construction with a key that does not decode to 32 bytes
\* fails; with InvalidKey when the key directory exists or could be created,
\* and with the OS error of mkdir otherwise, because the directory is ensured
\* before the key is validated.  Only construction raises InvalidKey: no
\* encrypt or decrypt call does.
C4_InvalidKey ==
    /\ last.op = "init" /\ ~C4_Decodes32(last.arg) =>
           last.err = (IF keyDir THEN "InvalidKey" ELSE "IOError")
    /\ last.op = "init" /\ C4_Decodes32(last.arg) /\ keyDir => last.err = ""
    /\ last.err = "InvalidKey" => last.op = "init"

\* a key of 16 bytes was refused with InvalidKey
C4_Witness ==
    /\ last.op = "init"
    /\ last.arg = B64Encode([rawlen |-> 16])
    /\ last.err = "InvalidKey"


\* a letter or a digit
IsAlnum(c) == (c >= 48 /\ c <= 57) \/ (c >= 65 /\ c <= 90) \/ (c >= 97 /\ c <= 122)

\* key_ + 5 characters of the alphabet + .key
IsKeyFileName(name) ==
    /\ Len(name) = 13
    /\ SubSeq(name, 1, 4) = <<107, 101, 121, 95>>
    /\ \A i \in 5..9 : IsAlnum(name[i])
    /\ SubSeq(name, 10, 13) = <<46, 107, 101, 121>>

C5_Returned ==
    last.op = "create_key" =>
        IF last.arg.b
        THEN last.err = "" =>
                 /\ last.out # None
                 /\ last.path # None
                 /\ last.path.dir = KEY_DIR
                 /\ keyDir
                 /\ IsKeyFileName(last.path.name)
                 /\ last.path.name \in DOMAIN files
                 /\ files[last.path.name] = last.out
        ELSE last.err = "" /\ last.out # None /\ last.path = None

C5_NoArchiveNoFile ==
    last'.op = "create_key" /\ ~last'.arg.b => files' = files /\ keyDir' = keyDir

\* C5: create_key(archive=True) that returns has returned a key and a path
\* under KEY_DIR, named key_ + 5 alphabet characters + .key, whose file exists
\* and holds the returned key; create_key(archive=False) returns a key and no
\* path, and creates or changes no file or directory.
C5_Archival == [](C5_Returned) /\ [][C5_NoArchiveNoFile]_vars

\* a key was archived in a file of a well-formed name
C5_Witness ==
    /\ last.op = "create_key"
    /\ last.arg.b
    /\ last.err = ""
    /\ last.path # None
    /\ last.path.name \in DOMAIN files
    /\ files[last.path.name] = last.out

C6_Step ==
    last'.op \in {"archive_key", "create_key"} /\ last'.path # None =>
        /\ last'.path.name \notin DOMAIN files
        /\ last'.path # last.path
        /\ \A n \in DOMAIN files : n \in DOMAIN files' /\ files'[n] = files[n]

\* C6: every archival call writes to a path that did not exist before: two
\* successive archival calls return distinct paths, and the content of an
\* archived key file is never overwritten.
C6_CreateNewOnly == [][C6_Step]_vars

C7_Fails ==
    /\ last.op = "archive_key" /\ ~IsBytes(last.arg) => last.err = "InvalidInput"
    /\ last.op = "get_random_string" /\ last.arg.n < 1 => last.err = "InvalidInput"
    /\ last.op \in {"encrypt", "decrypt"} /\ last.arg.t \notin {"str", "bytes"}
           => last.err = "InvalidInput"

C7_Frame ==
    last'.err = "InvalidInput" => keyDir' = keyDir /\ files' = files /\ box' = box

\* C7: archive_key of a key that is not bytes, _get_random_string of a length
\* below 1, and encrypt/decrypt of a value that is neither str nor bytes fail
\* with InvalidInput, and a call that fails with InvalidInput leaves the key
\* directory, its files and the box as they were.
C7_InvalidInput == [](C7_Fails) /\ [][C7_Frame]_vars

\* archive_key of a str was refused while the key directory did not exist,
\* and it still does not
C7_Witness ==
    /\ last.op = "archive_key"
    /\ IsStr(last.arg)
    /\ last.err = "InvalidInput"
    /\ ~keyDir

\* C8: _get_random_string(n) returns exactly n characters, each a letter or a
\* digit, for n >= 1, and fails with InvalidInput for n <= 0.
C8_RandomString ==
    last.op = "get_random_string" =>
        IF last.arg.n >= 1
        THEN /\ last.err = ""
             /\ IsStr(last.out)
             /\ Len(last.out.lit) = last.arg.n
             /\ \A i \in 1..Len(last.out.lit) : IsAlnum(last.out.lit[i])
        ELSE last.err = "InvalidInput" /\ last.out = None

\* a string of 3 upper-case letters was returned
C8_Witness ==
    /\ last.op = "get_random_string"
    /\ last.arg.n = 3
    /\ last.out = PyStr(<<68, 71, 74>>)

Normalized(domain) == Lower(Strip(domain))

C10_View == shown'.op = "view" => store' = store

C10_Add ==
    shown'.op = "add" =>
        /\ \/ \E i \in 1..Len(store) : store[i].domain = shown'.domain
           \/ shown'.arg = <<>>
           \/ shown'.msg = "error"
           => store' = store
        /\ store' # store =>
               /\ shown'.msg = "saved"
               /\ Len(store') = Len(store) + 1
               /\ SubSeq(store', 1, Len(store)) = store
               /\ store'[Len(store')].domain = shown'.domain
               /\ decrypt_err(ui.fernet, store'[Len(store')].password) = ""
               /\ decrypt(ui.fernet, store'[Len(store')].password) = PyStr(shown'.arg)

\* C10: view-password, whether decrypt succeeds or fails, leaves every row as
\* it was; add-password leaves the table as it was when the domain already
\* exists, the password is empty or the encrypt-and-insert raises, and
\* otherwise appends exactly one row, holding the token of the password.
C10_NoPartialState == [][C10_View /\ C10_Add]_vars

\* a view whose decrypt failed, the rows still there
C10_Witness ==
    /\ shown.op = "view"
    /\ shown.msg = "InvalidToken"
    /\ Len(store) = 2

\* the key under which the token of a row was encrypted
TokenKey(row) == row.password.tok.body.ct.ek

\* C11: while the menu of a session is open, every row of the table decrypts
\* under the session's FernetHasher, and all the tokens of the table are
\* encrypted under one single key.
C11_SessionKeyConsistency ==
    /\ ui.pc = "menu" =>
           \A i \in 1..Len(store) : decrypt_err(ui.fernet, store[i].password) = ""
    /\ \A i, j \in 1..Len(store) : TokenKey(store[i]) = TokenKey(store[j])

\* the rows of s whose domain is not d
OtherRows(s, d) == SelectSeq(s, LAMBDA r : r.domain # d)

C12_Step ==
    shown'.op = "remove" =>
        LET d == shown'.domain
            c == shown'.arg
        IN /\ OtherRows(store', d) = OtherRows(store, d)
           /\ \/ \A i \in 1..Len(store) : store[i].domain # d
              \/ Lower(c) # <<121>>
              => store' = store
           /\ store' # store =>
                  /\ shown'.msg = "removed"
                  /\ store' = OtherRows(store, d)
                  /\ Len(store') = Len(store) - 1
           /\ shown'.msg = "removed" /\ shown' # shown =>
                  /\ store' = OtherRows(store, d)
                  /\ Len(store') = Len(store) - 1

\* C12: remove-password never removes or changes a row of another domain;
\* it leaves the table as it was when the entered domain has no row or the
\* confirmation, lowercased, is not "y"; and when it removes, it removes
\* exactly the one row of the entered domain.
C12_RemoveFrame == [][C12_Step]_vars

\* a removal confirmed with "Y" took one domain's row and left the other's
C12_Witness ==
    /\ shown.op = "remove"
    /\ shown.msg = "removed"
    /\ shown.arg = <<89>>
    /\ Len(store) = 1
    /\ store[1].domain # shown.domain

=============================================================================
